---- MODULE Spec2Model ----
(***************************************************************************)
(* Model of tddcinema/abonnement.py: the Formula enumeration, the          *)
(* TariffPlan record with first_payment_for_day, the two tariff tables     *)
(* TABLE_1 and TABLE_2, and the Abonnement class (constructor,             *)
(* _resolve_tariff, monthly_fee, first_payment, total_cost,                *)
(* validate_family).                                                       *)
(*                                                                         *)
(* A decimal.Decimal is the record [c |-> coefficient, e |-> number of     *)
(* fractional digits], so Decimal("22.90") is [c |-> 2290, e |-> 2] and    *)
(* Decimal("8") is [c |-> 8, e |-> 0]: the two have different              *)
(* representations even where their numeric values compare equal.          *)
(* A call returns [ok |-> TRUE, val |-> v] or raises, which is the record  *)
(* [ok |-> FALSE, err |-> message].                                        *)
(***************************************************************************)
EXTENDS Integers, Sequences, FiniteSets, TLC

\* ------------------------------------------------------------------ bounds
\* constructor inputs: duration_months ranges over 0..MaxDuration
MaxDuration == 12
\* constructor inputs: adults ranges over 0..MaxAdults
MaxAdults == 3
\* constructor inputs: children ranges over 0..MaxChildren
MaxChildren == 3
\* first_payment_for_day is called with days (1 - DayMargin)..(31 + DayMargin)
DayMargin == 2

\* ---------------------------------------------------------------- Decimal
RECURSIVE Pow10(_)
Pow10(n) == IF n <= 0 THEN 1 ELSE 10 * Pow10(n - 1)

Abs(n) == IF n < 0 THEN -n ELSE n
Sign(n) == IF n < 0 THEN -1 ELSE 1
Max(a, b) == IF a >= b THEN a ELSE b

\* Decimal("...") literal: coefficient and number of fractional digits
Decimal(c, e) == [c |-> c, e |-> e]

\* Decimal.__add__: the result takes the larger number of fractional digits
DecAdd(a, b) ==
    LET e == Max(a.e, b.e)
    IN  [c |-> a.c * Pow10(e - a.e) + b.c * Pow10(e - b.e), e |-> e]

\* Decimal.__mul__ with an int operand: the int is Decimal(n) with exponent 0
DecMulInt(a, n) == [c |-> a.c * n, e |-> a.e]

\* Decimal.__eq__ compares numeric values, whatever the exponents are
DecEq(a, b) == a.c * Pow10(b.e) = b.c * Pow10(a.e)

\* Decimal.__le__
DecLe(a, b) == a.c * Pow10(b.e) <= b.c * Pow10(a.e)

\* Decimal("0.01"): the quantum of every quantize call of the module
TWO_PLACES == 2

\* x.quantize(Decimal("0.01"), rounding=ROUND_HALF_UP)
quantize(a, places) ==
    IF a.e <= places
    THEN [c |-> a.c * Pow10(places - a.e), e |-> places]
    ELSE LET d == Pow10(a.e - places)
             q == Abs(a.c) \div d
             r == Abs(a.c) % d
         IN  [c |-> Sign(a.c) * (IF 2 * r >= d THEN q + 1 ELSE q), e |-> places]

\* ------------------------------------------------------- calls and raises
Return(v) == [ok |-> TRUE, val |-> v]
Raise(msg) == [ok |-> FALSE, err |-> msg]

ERR_DAY == "Le jour de debut doit etre compris entre 1 et 31"
ERR_DURATION == "Duree d'abonnement non prise en charge (1, 6 ou 12 mois)"
ERR_FORMULA == "Formule incompatible avec la duree choisie"
ERR_FAMILY == "Composition familiale ou justificatif invalide"

\* ---------------------------------------------------------------- Formula
Formula ==
    { "ILLIMITE_26_PLUS", "ILLIMITE_26_MINUS", "ILLIMITE_2_PERS", "FAMILLE",
      "ILLIMITE_WEEKEND", "ILLIMITE_SEMAINE", "ILLIMITE_3D", "CINE_PLUS_CANAL",
      "CINE_DAY" }

\* ------------------------------------------------------------- TariffPlan
TariffPlan(fee, b0, b1, b2, b3) ==
    [monthly_fee |-> fee, first_payment_brackets |-> <<b0, b1, b2, b3>>]

\* the tuple is indexed from 0 in the source and from 1 here
Bracket(plan, i) == plan.first_payment_brackets[i + 1]

first_payment_for_day_lt8(plan, start_day) ==
    IF ~(1 <= start_day /\ start_day <= 31) THEN Raise(ERR_DAY)
    ELSE IF start_day < 8 THEN Return(Bracket(plan, 0))
    ELSE IF start_day <= 16 THEN Return(Bracket(plan, 1))
    ELSE IF start_day <= 22 THEN Return(Bracket(plan, 2))
    ELSE Return(Bracket(plan, 3))

first_payment_for_day_le9(plan, start_day) ==
    IF ~(1 <= start_day /\ start_day <= 31) THEN Raise(ERR_DAY)
    ELSE IF start_day <= 9 THEN Return(Bracket(plan, 0))
    ELSE IF start_day <= 16 THEN Return(Bracket(plan, 1))
    ELSE IF start_day <= 22 THEN Return(Bracket(plan, 2))
    ELSE Return(Bracket(plan, 3))

first_payment_for_day(plan, start_day) ==
    IF ~(1 <= start_day /\ start_day <= 31) THEN Raise(ERR_DAY)
    ELSE IF start_day <= 8 THEN Return(Bracket(plan, 0))
    ELSE IF start_day <= 16 THEN Return(Bracket(plan, 1))
    ELSE IF start_day <= 22 THEN Return(Bracket(plan, 2))
    ELSE Return(Bracket(plan, 3))

\* ----------------------------------------------------------------- tables
TABLE_1 ==
    ( "ILLIMITE_26_PLUS" :> TariffPlan(Decimal(2290, 2),
          Decimal(4580, 2), Decimal(3053, 2), Decimal(3060, 2), Decimal(2290, 2)) ) @@
    ( "ILLIMITE_26_MINUS" :> TariffPlan(Decimal(1790, 2),
          Decimal(3580, 2), Decimal(2479, 2), Decimal(2387, 2), Decimal(1790, 2)) ) @@
    ( "ILLIMITE_2_PERS" :> TariffPlan(Decimal(3680, 2),
          Decimal(7360, 2), Decimal(4932, 2), Decimal(4926, 2), Decimal(3680, 2)) ) @@
    ( "FAMILLE" :> TariffPlan(Decimal(3790, 2),
          Decimal(7580, 2), Decimal(5059, 2), Decimal(5056, 2), Decimal(3790, 2)) ) @@
    ( "ILLIMITE_WEEKEND" :> TariffPlan(Decimal(1690, 2),
          Decimal(3380, 2), Decimal(2243, 2), Decimal(2253, 2), Decimal(1690, 2)) ) @@
    ( "ILLIMITE_SEMAINE" :> TariffPlan(Decimal(1990, 2),
          Decimal(3980, 2), Decimal(2746, 2), Decimal(2653, 2), Decimal(1990, 2)) )

TABLE_2 ==
    ( "ILLIMITE_26_PLUS" :> TariffPlan(Decimal(2290, 2),
          Decimal(2959, 2), Decimal(2290, 2), Decimal(2290, 2), Decimal(2290, 2)) ) @@
    ( "ILLIMITE_26_MINUS" :> TariffPlan(Decimal(1790, 2),
          Decimal(2084, 2), Decimal(1790, 2), Decimal(1790, 2), Decimal(1790, 2)) ) @@
    ( "ILLIMITE_2_PERS" :> TariffPlan(Decimal(3680, 2),
          Decimal(4293, 2), Decimal(3680, 2), Decimal(3680, 2), Decimal(3680, 2)) ) @@
    ( "FAMILLE" :> TariffPlan(Decimal(3790, 2),
          Decimal(4424, 2), Decimal(3790, 2), Decimal(3790, 2), Decimal(3790, 2)) ) @@
    ( "ILLIMITE_3D" :> TariffPlan(Decimal(3090, 2),
          Decimal(3090, 2), Decimal(3090, 2), Decimal(3090, 2), Decimal(3090, 2)) ) @@
    ( "CINE_PLUS_CANAL" :> TariffPlan(Decimal(4490, 2),
          Decimal(4490, 2), Decimal(4490, 2), Decimal(4490, 2), Decimal(4490, 2)) ) @@
    ( "CINE_DAY" :> TariffPlan(Decimal(8, 0),
          Decimal(8, 0), Decimal(8, 0), Decimal(8, 0), Decimal(8, 0)) )

\* every TariffPlan of the module, with the table and the formula it is filed under
AllPlans ==
    { <<"TABLE_1", f>> : f \in DOMAIN TABLE_1 } \cup
    { <<"TABLE_2", f>> : f \in DOMAIN TABLE_2 }

PlanOf(tf) == IF tf[1] = "TABLE_1" THEN TABLE_1[tf[2]] ELSE TABLE_2[tf[2]]

\* ------------------------------------------------------------- Abonnement
resolve_tariff_accepts3(self) ==
    IF self.duration_months = 1
    THEN IF self.formula \in DOMAIN TABLE_1
         THEN Return(TABLE_1[self.formula]) ELSE Raise(ERR_FORMULA)
    ELSE IF self.duration_months \in {3, 6, 12}
    THEN IF self.formula \in DOMAIN TABLE_2
         THEN Return(TABLE_2[self.formula]) ELSE Raise(ERR_FORMULA)
    ELSE Raise(ERR_DURATION)

resolve_tariff_12_in_table1(self) ==
    IF self.duration_months \in {1, 12}
    THEN IF self.formula \in DOMAIN TABLE_1
         THEN Return(TABLE_1[self.formula]) ELSE Raise(ERR_FORMULA)
    ELSE IF self.duration_months = 6
    THEN IF self.formula \in DOMAIN TABLE_2
         THEN Return(TABLE_2[self.formula]) ELSE Raise(ERR_FORMULA)
    ELSE Raise(ERR_DURATION)

resolve_tariff(self) ==
    IF self.duration_months = 1
    THEN IF self.formula \in DOMAIN TABLE_1
         THEN Return(TABLE_1[self.formula]) ELSE Raise(ERR_FORMULA)
    ELSE IF self.duration_months \in {6, 12}
    THEN IF self.formula \in DOMAIN TABLE_2
         THEN Return(TABLE_2[self.formula]) ELSE Raise(ERR_FORMULA)
    ELSE Raise(ERR_DURATION)

validate_family_no_livret(self) ==
    IF self.formula # "FAMILLE" THEN TRUE
    ELSE self.adults <= 2 /\ self.children <= 2

validate_family(self) ==
    IF self.formula # "FAMILLE" THEN TRUE
    ELSE self.adults <= 2 /\ self.children <= 2 /\ self.livret_presented

monthly_fee(self) == self.tariff.monthly_fee

first_payment(self) ==
    LET payment == first_payment_for_day(self.tariff, self.start_date.day)
    IN  IF payment.ok THEN Return(quantize(payment.val, TWO_PLACES)) ELSE payment

total_cost_all_months(self) ==
    LET remaining_months == Max(self.duration_months, 0)
        fp == first_payment(self)
    IN  IF fp.ok
        THEN Return(quantize(DecAdd(fp.val,
                 DecMulInt(monthly_fee(self), remaining_months)), TWO_PLACES))
        ELSE fp

total_cost_one_less(self) ==
    LET remaining_months == Max(self.duration_months - 2, 0)
        fp == first_payment(self)
    IN  IF fp.ok
        THEN Return(quantize(DecAdd(fp.val,
                 DecMulInt(monthly_fee(self), remaining_months)), TWO_PLACES))
        ELSE fp

total_cost(self) ==
    LET remaining_months == Max(self.duration_months - 1, 0)
        fp == first_payment(self)
    IN  IF fp.ok
        THEN Return(quantize(DecAdd(fp.val,
                 DecMulInt(monthly_fee(self), remaining_months)), TWO_PLACES))
        ELSE fp

\* Abonnement.__init__: the attributes are assigned, the tariff is resolved,
\* and only then is the family composition validated
init_family_first(a) ==
    IF a.formula = "FAMILLE" /\ ~validate_family(a) THEN Raise(ERR_FAMILY)
    ELSE LET t == resolve_tariff(a)
         IN  IF ~t.ok THEN t
             ELSE Return([formula |-> a.formula,
                          duration_months |-> a.duration_months,
                          start_date |-> a.start_date, adults |-> a.adults,
                          children |-> a.children,
                          livret_presented |-> a.livret_presented,
                          tariff |-> t.val])

init(a) ==
    LET t == resolve_tariff(a)
    IN  IF ~t.ok THEN t
        ELSE IF a.formula = "FAMILLE" /\ ~validate_family(a) THEN Raise(ERR_FAMILY)
        ELSE Return([formula |-> a.formula,
                     duration_months |-> a.duration_months,
                     start_date |-> a.start_date, adults |-> a.adults,
                     children |-> a.children,
                     livret_presented |-> a.livret_presented,
                     tariff |-> t.val])

\* ------------------------------------------------------------------ state
VARIABLES
    pc,      \* "start", "constructed" or "failed": the lifetime of one instance
    args,    \* the arguments of the constructor call
    sub,     \* the Abonnement instance, NoSub while none exists
    err,     \* the message of the ValueError the constructor raised, or ""
    res      \* the last call made and what it returned

vars == <<pc, args, sub, err, res>>

NoSub == [formula |-> "none"]
NoArgs == [formula |-> "none"]
NoRes == [op |-> "none"]

\* the day of a datetime.date
DaysOfMonth == 1..31
DurationInputs == 0..MaxDuration
AdultInputs == 0..MaxAdults
ChildInputs == 0..MaxChildren
DayInputs == (1 - DayMargin)..(31 + DayMargin)

Init ==
    /\ pc = "start"
    /\ args = NoArgs
    /\ sub = NoSub
    /\ err = ""
    /\ res = NoRes

\* Abonnement(formula, duration_months, start_date, adults, children, livret_presented)
Construct ==
    /\ pc = "start"
    /\ \E formula \in Formula, duration_months \in DurationInputs,
          day \in DaysOfMonth, adults \in AdultInputs, children \in ChildInputs,
          livret_presented \in BOOLEAN :
          LET a == [formula |-> formula, duration_months |-> duration_months,
                    start_date |-> [day |-> day], adults |-> adults,
                    children |-> children, livret_presented |-> livret_presented]
              r == init(a)
          IN  /\ args' = a
              /\ IF r.ok
                 THEN pc' = "constructed" /\ sub' = r.val /\ err' = ""
                 ELSE pc' = "failed" /\ sub' = NoSub /\ err' = r.err
    /\ res' = NoRes

\* abonnement.monthly_fee
MonthlyFee ==
    /\ pc = "constructed"
    /\ res' = [op |-> "monthly_fee", out |-> Return(monthly_fee(sub))]
    /\ UNCHANGED <<pc, args, sub, err>>

\* abonnement.first_payment
FirstPayment ==
    /\ pc = "constructed"
    /\ res' = [op |-> "first_payment", out |-> first_payment(sub)]
    /\ UNCHANGED <<pc, args, sub, err>>

TotalCostDecrementsDuration ==
    /\ pc = "constructed"
    /\ res' = [op |-> "total_cost", out |-> total_cost(sub)]
    /\ sub' = [sub EXCEPT !.duration_months = Max(@ - 1, 0)]
    /\ UNCHANGED <<pc, args, err>>

\* abonnement.total_cost
TotalCost ==
    /\ pc = "constructed"
    /\ res' = [op |-> "total_cost", out |-> total_cost(sub)]
    /\ UNCHANGED <<pc, args, sub, err>>

\* abonnement.validate_family()
ValidateFamily ==
    /\ pc = "constructed"
    /\ res' = [op |-> "validate_family", out |-> Return(validate_family(sub))]
    /\ UNCHANGED <<pc, args, sub, err>>

\* plan.first_payment_for_day(day) on a TariffPlan of one of the tables
FirstPaymentForDay(tf, day) ==
    /\ res' = [op |-> "first_payment_for_day", plan |-> tf, day |-> day,
               out |-> first_payment_for_day(PlanOf(tf), day)]
    /\ UNCHANGED <<pc, args, sub, err>>

Next ==
    \/ Construct
    \/ MonthlyFee
    \/ FirstPayment
    \/ TotalCost
    \/ ValidateFamily

Spec == Init /\ [][Next]_vars

NextPlan == \E tf \in AllPlans, day \in DayInputs : FirstPaymentForDay(tf, day)

SpecPlan == Init /\ [][NextPlan]_vars

\* ----------------------------------------------------------------- claims
Supported == {1, 6, 12}
Made == pc # "start"
Built == pc = "constructed"
Called(op) == pc = "constructed" /\ res.op = op
HouseholdOk(a) == a.adults <= 2 /\ a.children <= 2 /\ a.livret_presented

\* C1: for every constructed Abonnement, total_cost equals first_payment +
\* monthly_fee * (duration - 1) exactly, and it is what rounding the unrounded
\* bracket amount plus the monthly fees once, at the end, gives.
C1_TotalCostFormula ==
    Called("total_cost") =>
        LET raw == Bracket(sub.tariff,
                       IF sub.start_date.day <= 8 THEN 0
                       ELSE IF sub.start_date.day <= 16 THEN 1
                       ELSE IF sub.start_date.day <= 22 THEN 2 ELSE 3)
            rest == DecMulInt(sub.tariff.monthly_fee, sub.duration_months - 1)
        IN  /\ res.out.ok
            /\ first_payment(sub).ok
            /\ DecEq(res.out.val, DecAdd(first_payment(sub).val, rest))
            /\ res.out.val = quantize(DecAdd(raw, rest), TWO_PLACES)

C1_Witness ==
    /\ Called("total_cost")
    /\ sub.formula = "ILLIMITE_26_PLUS"
    /\ sub.duration_months = 12
    /\ sub.start_date.day = 5
    /\ res.out = Return(Decimal(28149, 2))

\* C2: first_payment_for_day returns bracket 0 for days 1..8, bracket 1 for
\* days 9..16, bracket 2 for days 17..22, bracket 3 for days 23..31, and
\* raises the day error for every day outside 1..31.
C2_BracketSelection ==
    res.op = "first_payment_for_day" =>
        LET b == PlanOf(res.plan).first_payment_brackets
        IN  /\ res.day \in 1..8 => res.out = Return(b[1])
            /\ res.day \in 9..16 => res.out = Return(b[2])
            /\ res.day \in 17..22 => res.out = Return(b[3])
            /\ res.day \in 23..31 => res.out = Return(b[4])
            /\ res.day \notin 1..31 => res.out = Raise(ERR_DAY)

C2_Witness ==
    /\ res.op = "first_payment_for_day"
    /\ res.plan = <<"TABLE_1", "ILLIMITE_WEEKEND">>
    /\ res.day = 8
    /\ res.out = Return(Decimal(3380, 2))

\* C3: a construction with a duration other than 1, 6 or 12 fails with the
\* unsupported-duration error, for every plan, start day and household.
C3_UnsupportedDuration ==
    (Made /\ args.duration_months \notin Supported) =>
        /\ pc = "failed"
        /\ sub = NoSub
        /\ err = ERR_DURATION

C3_Witness ==
    /\ pc = "failed"
    /\ args.formula = "ILLIMITE_WEEKEND"
    /\ args.duration_months = 3
    /\ err = ERR_DURATION

\* C4: with a supported duration, construction fails with the incompatible
\* plan error exactly when the plan is absent from the table the duration
\* selects (1: TABLE_1; 6 and 12: TABLE_2): week-end and semaine fail for 6
\* and 12, 3D, CINE+ and CINE DAY fail for 1, the other four plans are
\* accepted for 1, 6 and 12, subject to the family validation.
C4_PlanCompatibility ==
    (Made /\ args.duration_months \in Supported) =>
        LET table == IF args.duration_months = 1 THEN TABLE_1 ELSE TABLE_2
        IN  /\ (err = ERR_FORMULA) <=> (args.formula \notin DOMAIN table)
            /\ err = ERR_FORMULA => pc = "failed"
            /\ ( /\ args.formula \in {"ILLIMITE_WEEKEND", "ILLIMITE_SEMAINE"}
                 /\ args.duration_months \in {6, 12} ) => err = ERR_FORMULA
            /\ ( /\ args.formula \in {"ILLIMITE_3D", "CINE_PLUS_CANAL", "CINE_DAY"}
                 /\ args.duration_months = 1 ) => err = ERR_FORMULA
            /\ args.formula \in {"ILLIMITE_26_PLUS", "ILLIMITE_26_MINUS",
                                 "ILLIMITE_2_PERS"} => Built
            /\ args.formula = "FAMILLE" =>
                   \/ Built
                   \/ pc = "failed" /\ err = ERR_FAMILY
            /\ Built => sub.tariff = table[args.formula]

C4_Witness ==
    /\ pc = "failed"
    /\ args.formula = "ILLIMITE_WEEKEND"
    /\ args.duration_months = 12
    /\ err = ERR_FORMULA

\* C5: for the family plan with a supported duration, construction succeeds
\* iff adults <= 2, children <= 2 and the livret was presented; for every
\* other plan validate_family is true and the household attributes never
\* make the construction fail.
C5_FamilyValidation ==
    (Made /\ args.duration_months \in Supported) =>
        LET table == IF args.duration_months = 1 THEN TABLE_1 ELSE TABLE_2
        IN  /\ args.formula = "FAMILLE" =>
                   /\ Built <=> HouseholdOk(args)
                   /\ ~Built => err = ERR_FAMILY
            /\ args.formula # "FAMILLE" =>
                   /\ err # ERR_FAMILY
                   /\ Built <=> args.formula \in DOMAIN table
                   /\ Called("validate_family") => res.out = Return(TRUE)

C5_Witness ==
    /\ pc = "failed"
    /\ args.formula = "FAMILLE"
    /\ args.duration_months = 1
    /\ args.adults = 2
    /\ args.children = 2
    /\ ~args.livret_presented
    /\ err = ERR_FAMILY

\* C6: every public monetary result of a constructed Abonnement (monthly_fee,
\* first_payment, total_cost) has exactly two fractional digits.
C6_TwoFractionalDigits ==
    ( \/ Called("monthly_fee")
      \/ Called("first_payment")
      \/ Called("total_cost") ) =>
        /\ res.out.ok
        /\ res.out.val.e = TWO_PLACES

\* C7: an Abonnement is immutable after construction: no call changes the
\* instance the constructor built from its arguments, validate_family()
\* returns true on every call, and monthly_fee, first_payment and total_cost
\* return on every call the value fixed by the constructor's arguments.
C7_Immutable ==
    /\ [][Built => (Built' /\ sub' = sub)]_vars
    /\ [](Built =>
            /\ sub = init(args).val
            /\ Called("validate_family") => res.out = Return(TRUE)
            /\ Called("monthly_fee") => res.out = Return(monthly_fee(init(args).val))
            /\ Called("first_payment") => res.out = first_payment(init(args).val)
            /\ Called("total_cost") => res.out = total_cost(init(args).val))

C7_Witness ==
    /\ Called("validate_family")
    /\ sub.formula = "FAMILLE"
    /\ sub.duration_months = 6
    /\ sub.adults = 2
    /\ res.out = Return(TRUE)

\* C8: for every plan of TABLE_2 (6 or 12 months) and every start day from
\* 9 to 31, first_payment equals monthly_fee and total_cost equals
\* monthly_fee times the duration.
C8_LongCommitmentFlat ==
    ( /\ Built
      /\ sub.duration_months \in {6, 12}
      /\ sub.start_date.day \in 9..31 ) =>
        /\ Called("first_payment") =>
               /\ res.out.ok
               /\ DecEq(res.out.val, sub.tariff.monthly_fee)
        /\ Called("total_cost") =>
               /\ res.out.ok
               /\ DecEq(res.out.val,
                        DecMulInt(sub.tariff.monthly_fee, sub.duration_months))

C8_Witness ==
    /\ Called("total_cost")
    /\ sub.formula = "ILLIMITE_26_PLUS"
    /\ sub.duration_months = 6
    /\ sub.start_date.day = 9
    /\ res.out = Return(Decimal(13740, 2))

\* C9: the tariff is resolved before the family is validated: a family
\* construction with an unsupported duration and an invalid household fails
\* with the duration error, and the household error is raised only for a
\* family plan whose duration is 1, 6 or 12.
C9_CheckOrder ==
    Made =>
        /\ ( /\ args.formula = "FAMILLE"
             /\ args.duration_months \notin Supported
             /\ ~HouseholdOk(args) ) => (pc = "failed" /\ err = ERR_DURATION)
        /\ err = ERR_FAMILY =>
               /\ args.formula = "FAMILLE"
               /\ args.duration_months \in Supported

C9_Witness ==
    /\ pc = "failed"
    /\ args.formula = "FAMILLE"
    /\ args.duration_months = 3
    /\ args.adults = 3
    /\ ~args.livret_presented
    /\ err = ERR_DURATION

\* C10: for every constructed Abonnement, every bracket of its tariff is at
\* least the monthly fee and the last bracket equals it, so first_payment is
\* at least monthly_fee and total_cost at least monthly_fee times the duration.
C10_AtLeastMonthlyFee ==
    Built =>
        /\ \A i \in 0..3 : DecLe(sub.tariff.monthly_fee, Bracket(sub.tariff, i))
        /\ DecEq(Bracket(sub.tariff, 3), sub.tariff.monthly_fee)
        /\ Called("first_payment") =>
               /\ res.out.ok
               /\ DecLe(sub.tariff.monthly_fee, res.out.val)
        /\ Called("total_cost") =>
               /\ res.out.ok
               /\ DecLe(DecMulInt(sub.tariff.monthly_fee, sub.duration_months),
                        res.out.val)

C10_Witness ==
    /\ Called("total_cost")
    /\ sub.formula = "ILLIMITE_SEMAINE"
    /\ sub.duration_months = 1
    /\ sub.start_date.day = 23
    /\ res.out = Return(Decimal(1990, 2))

====
